---- MODULE Spec2Model ----
(***************************************************************************)
(* Model of scripts/slo-advisor/generate-slo-guide.py: call_openai_api,    *)
(* the retry / backoff / model-fallback loop around one chat completion.   *)
(*                                                                         *)
(* One step of the model is one iteration of the inner `for attempt` loop: *)
(* the call to client.chat.completions.create, the handler that its        *)
(* outcome selects, the time.sleep of that handler and the loop control    *)
(* that follows (continue / break / raise / return).                       *)
(*                                                                         *)
(* Lines 477-493 of the source (the validation of the response and the     *)
(* `return generated_content`) are indented one level less than the body   *)
(* of the `try` they belong to, so the file does not parse as it stands.   *)
(* The variable `layout` ranges over the two ways of reading the block:    *)
(*   "as_written": the relative indentation of the block is kept, which    *)
(*                 puts the return under the `raise` of the whitespace     *)
(*                 test, where it is never reached;                        *)
(*   "as_tested":  the return is at the level of the `try` body (its       *)
(*                 column in the file), as the unit tests expect.          *)
(*                                                                         *)
(* The other functions of the file have specifications of their own:       *)
(*   SpecChunk     chunk_discovery_content, applied to one document;       *)
(*   SpecEstimate  estimate_tokens, called a few times in one process;     *)
(*   SpecMain      main, from the reading of the worksheet to its exit;    *)
(*   SpecCheck     check_token_limit, called a few times in one process;   *)
(*   SpecValidate  validate_discovery_worksheet, check by check, on a file;*)
(*   SpecSanitize  sanitize_input, applied to one text.                    *)
(* Each specification leaves the variables of the others at rest.          *)
(***************************************************************************)
EXTENDS Integers, Sequences, FiniteSets, TLC

\* ---------------------------------------------------------------- bounds
MaxRetriesBound == 2
MaxBackoff == 2
MaxChoices == 2
MaxContentLen == 2
MaxMsgTokens == 2
MaxLines == 5
MaxTokensBound == 4
MaxTextLen == 9
MaxEstimateCalls == 2
MainSpread == 10
CheckSpread == 1
MaxFragments == 3
MaxCheckCalls == 2
MaxServiceLen == 2

\* ------------------------------------------------------------- constants
GPT4 == "gpt-4"
GPT35 == "gpt-3.5-turbo"
Models == {GPT4, GPT35, "gpt-4-turbo"}
Layouts == {"as_written", "as_tested"}

VARIABLES model, max_retries, initial_backoff, layout,
          models_to_try, model_idx, attempt, last_exception,
          pc, result, error, events, response, exc, classes_seen

\* chunk_discovery_content: its arguments, its result, whether it ran.
VARIABLES discovery_content, max_tokens, chunks, chunk_pc

\* estimate_tokens: the module flag set at import and the calls made so far.
VARIABLES HAS_TIKTOKEN, estimate_log

\* main: its position, the token estimate of the worksheet it read, the
\* functions it called so far, the files it wrote and its exit status;
\* args.service_name and args.output_file.
VARIABLES main_pc, worksheet_tokens, main_trace, files_written, exit_status,
          service_name, output_file

\* check_token_limit: the module's table of limits and the calls made so far.
VARIABLES MODEL_TOKEN_LIMITS, check_log

\* validate_discovery_worksheet: the file at the path, the position, the
\* checks run so far and what the call returned.
VARIABLES validate_file, validate_pc, validate_checks, validate_result

\* sanitize_input: its argument, its result, whether it ran.
VARIABLES sanitize_text, sanitize_out, sanitize_pc

chunk_vars == <<discovery_content, max_tokens, chunks, chunk_pc>>
estimate_vars == <<HAS_TIKTOKEN, estimate_log>>
main_vars == <<main_pc, worksheet_tokens, main_trace, files_written, exit_status,
               service_name, output_file>>
check_vars == <<MODEL_TOKEN_LIMITS, check_log>>
validate_vars == <<validate_file, validate_pc, validate_checks, validate_result>>
sanitize_vars == <<sanitize_text, sanitize_out, sanitize_pc>>
aside_vars == <<check_vars, validate_vars, sanitize_vars>>

params == <<model, max_retries, initial_backoff, layout, models_to_try>>
vars == <<model, max_retries, initial_backoff, layout,
          models_to_try, model_idx, attempt, last_exception,
          pc, result, error, events, response, exc, classes_seen,
          chunk_vars, estimate_vars, main_vars, aside_vars>>

\* ------------------------------------------------------ values and inputs
RECURSIVE Pow2(_)
Pow2(n) == IF n = 0 THEN 1 ELSE 2 * Pow2(n - 1)

RECURSIVE SeqsUpTo(_, _)
SeqsUpTo(S, n) ==
    IF n = 0 THEN {<<>>}
    ELSE LET shorter == SeqsUpTo(S, n - 1)
         IN  shorter \cup {Append(s, x) : s \in {t \in shorter : Len(t) = n - 1}, x \in S}

UpperLetters == <<"A", "B", "C", "D", "E", "F", "G", "H", "I", "J", "K", "L", "M", "N", "O", "P", "Q", "R", "S", "T", "U", "V", "W", "X", "Y", "Z">>
LowerLetters == <<"a", "b", "c", "d", "e", "f", "g", "h", "i", "j", "k", "l", "m", "n", "o", "p", "q", "r", "s", "t", "u", "v", "w", "x", "y", "z">>

\* str.lower(), character by character
Lower(c) ==
    IF \E i \in 1..Len(UpperLetters) : UpperLetters[i] = c
    THEN LowerLetters[CHOOSE i \in 1..Len(UpperLetters) : UpperLetters[i] = c]
    ELSE c

LowerAll(s) == [i \in 1..Len(s) |-> Lower(s[i])]

\* message.content: None, or a string over a three-letter alphabet.
NoneContent == <<"None">>
Chars == {" ", "\n", "a"}
Whitespace == {" ", "\n"}
Texts == SeqsUpTo(Chars, MaxContentLen)
Contents == {NoneContent} \cup Texts
OtherContent == <<"a", "a">>

\* str.strip(): the text without its leading and trailing whitespace.
RECURSIVE LStrip(_)
LStrip(s) == IF s # <<>> /\ Head(s) \in Whitespace THEN LStrip(Tail(s)) ELSE s

RECURSIVE RStrip(_)
RStrip(s) ==
    IF s # <<>> /\ s[Len(s)] \in Whitespace THEN RStrip(SubSeq(s, 1, Len(s) - 1)) ELSE s

Strip(s) == RStrip(LStrip(s))

\* Python truthiness of message.content: None and "" are falsy.
Truthy(c) == c # NoneContent /\ c # <<>>

\* What create() hands back when it does not raise: no object at all, an
\* object whose choices is None, or an object with a list of choices.
NullResponse == [present |-> FALSE, has_choices |-> FALSE, choices |-> <<>>]
NoChoicesResponse == [present |-> TRUE, has_choices |-> FALSE, choices |-> <<>>]
ChoiceLists ==
    {<<>>} \cup
    {[i \in 1..n |-> IF i = 1 THEN c ELSE OtherContent] : n \in 1..MaxChoices, c \in Contents}
Responses ==
    {NullResponse, NoChoicesResponse} \cup
    {[present |-> TRUE, has_choices |-> TRUE, choices |-> cs] : cs \in ChoiceLists}
NoResponse == NullResponse

\* str(e) of an APIError, as the set of the tell-tale words it contains.
MsgWords == {"authentication", "api key", "500", "502", "503", "504", "429", "400"}
TransientCodes == {"500", "502", "503", "504", "429"}
Messages == {m \in SUBSET MsgWords : Cardinality(m) <= MaxMsgTokens}

\* What create() raised: the class that selects the handler and, for an
\* APIError, its message. NoExc: it returned.
NoExc == [cls |-> "None", msg |-> {}]

NoError == [type |-> "none", kind |-> "none", model |-> "none", attempt |-> 0, wrapped |-> FALSE]

\* The calls the function makes to the outside, in order: create() (and
\* whether it raised) and time.sleep().
CallEvent(m, a, r) == [ev |-> "call", model |-> m, attempt |-> a, raised |-> r, seconds |-> 0]
SleepEvent(m, a, s) == [ev |-> "sleep", model |-> m, attempt |-> a, raised |-> FALSE, seconds |-> s]

model_name == models_to_try[model_idx]

\* --------------------------------------- the other functions at rest
ChunkIdle ==
    /\ discovery_content = <<>>
    /\ max_tokens = 0
    /\ chunks = <<>>
    /\ chunk_pc = "idle"

EstimateIdle ==
    /\ HAS_TIKTOKEN = FALSE
    /\ estimate_log = <<>>

MainIdle ==
    /\ main_pc = "idle"
    /\ worksheet_tokens = 0
    /\ main_trace = <<>>
    /\ files_written = {}
    /\ exit_status = -1
    /\ service_name = <<>>
    /\ output_file = <<>>

\* The table of limits as the module defines it.
GPT4_TOKEN_LIMIT == 7000
GPT4_TURBO_TOKEN_LIMIT == 100000
GPT35_TOKEN_LIMIT == 14000

TableAtImport ==
    [m \in Models |-> IF m = GPT4 THEN GPT4_TOKEN_LIMIT
                      ELSE IF m = GPT35 THEN GPT35_TOKEN_LIMIT
                      ELSE GPT4_TURBO_TOKEN_LIMIT]

CheckIdle ==
    /\ MODEL_TOKEN_LIMITS = TableAtImport
    /\ check_log = <<>>

NoFile == [exists |-> FALSE, name |-> <<>>, size |-> 0, text |-> TRUE, patterns |-> {}]
NoResult == [raised |-> FALSE, valid |-> FALSE, message |-> "none"]

ValidateIdle ==
    /\ validate_file = NoFile
    /\ validate_pc = "idle"
    /\ validate_checks = <<>>
    /\ validate_result = NoResult

SanitizeIdle ==
    /\ sanitize_text = <<>>
    /\ sanitize_out = <<>>
    /\ sanitize_pc = "idle"

AsideIdle == CheckIdle /\ ValidateIdle /\ SanitizeIdle

\* ------------------------------------------------------------------ Init
\* Mutant: the fallback model is appended for every primary model.
ModelsToTry_AlwaysFallback(m) == <<m, GPT35>>

ModelsToTry(m) == IF m = GPT4 THEN <<m, GPT35>> ELSE <<m>>

Init ==
    /\ model \in Models
    /\ max_retries \in 0..MaxRetriesBound
    /\ initial_backoff \in 0..MaxBackoff
    /\ layout \in Layouts
    /\ models_to_try = ModelsToTry(model)
    /\ model_idx = 1
    /\ attempt = 0
    /\ last_exception = "None"
    /\ pc = "attempt"
    /\ result = NoneContent
    /\ error = NoError
    /\ events = <<>>
    /\ response = NoResponse
    /\ exc = NoExc
    /\ classes_seen = {}
    /\ ChunkIdle
    /\ EstimateIdle
    /\ MainIdle
    /\ AsideIdle

\* ------------------------------------------------ loop control (helpers)
Range(s) == {s[i] : i \in 1..Len(s)}

\* Mutant: a backoff that does not grow with the attempt.
BackoffTime_Constant(a) == initial_backoff

BackoffTime(a) == initial_backoff * Pow2(a)

\* The outer handlers: ValueError and TimeoutError pass, anything else is
\* wrapped in Exception("OpenAI API call failed: ...").
Terminal(type, kind) ==
    [type |-> type, kind |-> kind, model |-> model_name, attempt |-> attempt,
     wrapped |-> type \notin {"ValueError", "TimeoutError"}]

\* raise out of the attempt that was just made.
Raise(e, type, kind) ==
    /\ events' = Append(events, CallEvent(model_name, attempt, exc'.cls # "None"))
    /\ pc' = "raised"
    /\ error' = Terminal(type, kind)
    /\ last_exception' = e.cls
    /\ UNCHANGED <<model_idx, attempt, result>>

\* Mutant: every kind of failure has a budget of its own, so a failure of
\* another kind than the one before does not use up an attempt.
Retry_PerKind(e) ==
    /\ events' = events \o <<CallEvent(model_name, attempt, exc'.cls # "None"),
                             SleepEvent(model_name, attempt, BackoffTime(attempt))>>
    /\ attempt' = IF last_exception \in {"None", e.cls} THEN attempt + 1 ELSE attempt
    /\ last_exception' = e.cls
    /\ UNCHANGED <<model_idx, pc, result, error>>

\* time.sleep(backoff_time); continue
Retry(e) ==
    /\ events' = events \o <<CallEvent(model_name, attempt, exc'.cls # "None"),
                             SleepEvent(model_name, attempt, BackoffTime(attempt))>>
    /\ attempt' = attempt + 1
    /\ last_exception' = e.cls
    /\ UNCHANGED <<model_idx, pc, result, error>>

\* Mutant: when the last model is used up the outer loop starts over with
\* the first one instead of raising.
LeaveModel_StartsOver ==
    /\ events' = Append(events, CallEvent(model_name, attempt, exc'.cls # "None"))
    /\ model_idx' = IF model_idx < Len(models_to_try) THEN model_idx + 1 ELSE 1
    /\ attempt' = 0
    /\ last_exception' = "None"
    /\ UNCHANGED <<pc, result, error>>

\* The inner loop is left (break, or its range is used up): the outer loop
\* takes the next model with a fresh last_exception, or, when there is
\* none, raises "All OpenAI models failed after retries".
LeaveModel ==
    /\ events' = Append(events, CallEvent(model_name, attempt, exc'.cls # "None"))
    /\ IF model_idx < Len(models_to_try)
         THEN /\ model_idx' = model_idx + 1
              /\ attempt' = 0
              /\ last_exception' = "None"
              /\ UNCHANGED <<pc, result, error>>
         ELSE /\ pc' = "raised"
              /\ error' = Terminal("Exception", "all_failed")
              /\ UNCHANGED <<model_idx, attempt, last_exception, result>>

\* `if model_name == "gpt-4" and "gpt-3.5-turbo" in models_to_try`
CanFallBack == model_name = GPT4 /\ GPT35 \in Range(models_to_try)

\* Mutant: exhaustion raises at once, the fallback model is never taken.
RetryOrFallback_NoFallback(e, type, kind) ==
    IF attempt < max_retries THEN Retry(e) ELSE Raise(e, type, kind)

\* Mutant: one retry too many (<= for <).
RetryOrFallback_OneMore(e, type, kind) ==
    IF attempt <= max_retries
    THEN Retry(e)
    ELSE IF CanFallBack THEN LeaveModel ELSE Raise(e, type, kind)

\* The body shared by the handlers of the transient failures.
RetryOrFallback(e, type, kind) ==
    IF attempt < max_retries
    THEN Retry(e)
    ELSE IF CanFallBack THEN LeaveModel ELSE Raise(e, type, kind)

\* The attempt's try block ended without return, raise or continue: the
\* for loop takes its next value, without any sleep.
FallThrough ==
    IF attempt < max_retries
    THEN /\ events' = Append(events, CallEvent(model_name, attempt, exc'.cls # "None"))
         /\ attempt' = attempt + 1
         /\ UNCHANGED <<model_idx, last_exception, pc, result, error>>
    ELSE LeaveModel

\* return generated_content
Return(content) ==
    /\ events' = Append(events, CallEvent(model_name, attempt, exc'.cls # "None"))
    /\ pc' = "returned"
    /\ result' = content
    /\ UNCHANGED <<model_idx, attempt, last_exception, error>>

\* ------------------------------------------------------ the attempt
\* Mutant: the whitespace test is left out.
Validate_NoWhitespaceTest(resp) ==
    IF ~resp.present \/ ~resp.has_choices \/ resp.choices = <<>> THEN "no_choices"
    ELSE IF Len(resp.choices) = 0 THEN "empty_choices"
    ELSE IF ~Truthy(resp.choices[1]) THEN "empty_content"
    ELSE "ok"

\* The validation of the response, in the order of the source.
Validate(resp) ==
    IF ~resp.present \/ ~resp.has_choices \/ resp.choices = <<>> THEN "no_choices"
    ELSE IF Len(resp.choices) = 0 THEN "empty_choices"
    ELSE IF ~Truthy(resp.choices[1]) THEN "empty_content"
    ELSE IF Strip(resp.choices[1]) = <<>> THEN "whitespace"
    ELSE "ok"

GeneratedContent(resp) == resp.choices[1]

\* Mutant: only the word "authentication" marks an authentication failure.
IsAuthMessage_OnlyAuthentication(msg) == "authentication" \in msg

IsAuthMessage(msg) == "authentication" \in msg \/ "api key" \in msg
IsTransientMessage(msg) == msg \cap TransientCodes # {}

\* create() returned resp.
Responded(resp) ==
    /\ pc = "attempt"
    /\ response' = resp
    /\ exc' = NoExc
    /\ UNCHANGED classes_seen
    /\ IF Validate(resp) # "ok"
         THEN Raise([cls |-> last_exception], "ValueError", Validate(resp))
         ELSE IF layout = "as_tested"
              THEN Return(GeneratedContent(resp))
              ELSE FallThrough
    /\ UNCHANGED params
    /\ UNCHANGED <<chunk_vars, estimate_vars, main_vars, aside_vars>>

Failed(e) ==
    /\ pc = "attempt"
    /\ response' = NoResponse
    /\ exc' = e
    /\ classes_seen' = classes_seen \cup {e.cls}
    /\ UNCHANGED params
    /\ UNCHANGED <<chunk_vars, estimate_vars, main_vars, aside_vars>>

\* except RateLimitError
RateLimited ==
    LET e == [cls |-> "RateLimitError", msg |-> {}]
    IN  Failed(e) /\ RetryOrFallback(e, "Exception", "rate_limit")

\* Mutant: the timeout handler raises a plain Exception.
TimedOut_AsException ==
    LET e == [cls |-> "APITimeoutError", msg |-> {}]
    IN  Failed(e) /\ RetryOrFallback(e, "Exception", "timeout")

\* except APITimeoutError
TimedOut ==
    LET e == [cls |-> "APITimeoutError", msg |-> {}]
    IN  Failed(e) /\ RetryOrFallback(e, "TimeoutError", "timeout")

\* except APIConnectionError
ConnectionFailed ==
    LET e == [cls |-> "APIConnectionError", msg |-> {}]
    IN  Failed(e) /\ RetryOrFallback(e, "Exception", "connection")

\* except APIError
ApiErrored(msg) ==
    LET e == [cls |-> "APIError", msg |-> msg]
    IN  /\ Failed(e)
        /\ IF IsAuthMessage(msg)
             THEN Raise(e, "ValueError", "auth")
             ELSE IF IsTransientMessage(msg) /\ attempt < max_retries
                  THEN Retry(e)
                  ELSE IF CanFallBack /\ IsTransientMessage(msg)
                       THEN LeaveModel
                       ELSE Raise(e, "Exception", "api_error")

\* except ValueError: raise
ValueErrored ==
    LET e == [cls |-> "ValueError", msg |-> {}]
    IN  /\ Failed(e)
        /\ Raise([cls |-> last_exception], "ValueError", "value_error")

\* except Exception
UnexpectedlyFailed ==
    LET e == [cls |-> "Exception", msg |-> {}]
    IN  Failed(e) /\ RetryOrFallback(e, "Exception", "unexpected")

Next ==
    \/ \E resp \in Responses : Responded(resp)
    \/ RateLimited
    \/ TimedOut
    \/ ConnectionFailed
    \/ \E msg \in Messages : ApiErrored(msg)
    \/ ValueErrored
    \/ UnexpectedlyFailed

Spec == Init /\ [][Next]_vars

\* The call keeps running: create() is given a timeout, so every attempt
\* ends with a response or an exception, and a sleep ends after its time.
SpecLive == Spec /\ WF_vars(Next)

\* The orchestrator at rest: no call is in progress and none can start.
OrchestratorIdle ==
    /\ model = GPT4
    /\ max_retries = 0
    /\ initial_backoff = 0
    /\ models_to_try = <<>>
    /\ model_idx = 1
    /\ attempt = 0
    /\ last_exception = "None"
    /\ pc = "idle"
    /\ result = NoneContent
    /\ error = NoError
    /\ events = <<>>
    /\ response = NoResponse
    /\ exc = NoExc
    /\ classes_seen = {}

\* ================================================ chunk_discovery_content
MinOf(S) == CHOOSE x \in S : \A y \in S : x <= y
MaxOf(S) == CHOOSE x \in S : \A y \in S : y <= x

NL == <<"\n">>

\* What startswith('##') tests, and the literal heads of the two patterns.
MAJOR == <<"#", "#">>
MINOR == <<"#", "#", "#">>

\* Documents are lines joined by newlines.  The lines are an empty line, a
\* major heading, a minor heading, two lines of content and a bare "##".
HeadingLine == <<"#", "#", " ", "a">>
ContentLines == { <<"a", "a", "a">>, <<"b", "b", "b", "b">> }

LineVocabulary ==
    { <<>>, HeadingLine, <<"#", "#", "#", " ", "a">>, <<"#", "#">> } \cup ContentLines

RECURSIVE JoinWith(_, _)
JoinWith(ss, sep) ==
    IF ss = <<>> THEN <<>>
    ELSE IF Len(ss) = 1 THEN ss[1]
    ELSE ss[1] \o sep \o JoinWith(Tail(ss), sep)

RECURSIVE LineSeqs(_)
LineSeqs(n) ==
    IF n = 0 THEN {<<>>}
    ELSE LET shorter == LineSeqs(n - 1)
         IN  shorter \cup {Append(s, x) : s \in {t \in shorter : Len(t) = n - 1},
                                          x \in LineVocabulary}

Documents == {JoinWith(ls, NL) : ls \in LineSeqs(MaxLines)}

\* len(text) // 4
HeuristicTokens_Modulo(text) == Len(text) % 4
HeuristicTokens_Ceiling(text) == (Len(text) + 3) \div 4
HeuristicTokens(text) == Len(text) \div 4

\* ---- re.split(r'\n(##\s+.+?)\n', text), character by character
\* The position of the first newline at or after q, or 0.
FirstNewlineFrom(t, q) ==
    LET S == {r \in q..Len(t) : t[r] = "\n"}
    IN  IF S = {} THEN 0 ELSE MinOf(S)

\* The length of the run of whitespace that starts at q.
WsRun(t, q) ==
    LET S == {k \in 0..(Len(t) - q + 1) :
                 \A i \in q..(q + k - 1) : t[i] \in Whitespace}
    IN  MaxOf(S)

\* The pattern \n(marker\s+.+?)\n tried at position p: the position of the
\* closing newline of the match, or 0 when there is none.  \s+ is greedy and
\* gives characters back until one character other than a newline (the dot)
\* and a later newline follow; .+? then stops at the first such newline.
MatchEnd(t, marker, p) ==
    LET n == Len(marker)
    IN  IF p + n > Len(t) \/ t[p] # "\n" \/ SubSeq(t, p + 1, p + n) # marker
        THEN 0
        ELSE LET K == WsRun(t, p + n + 1)
                 ok == {k \in 1..K :
                          LET q == p + n + 1 + k
                          IN  /\ q <= Len(t)
                              /\ t[q] # "\n"
                              /\ FirstNewlineFrom(t, q + 1) # 0}
             IN  IF ok = {} THEN 0
                 ELSE FirstNewlineFrom(t, p + n + 1 + MaxOf(ok) + 1)

\* The list re.split returns: the text between the matches, with the
\* captured group of each match in between.
RECURSIVE SplitFrom(_, _, _)
SplitFrom(t, marker, start) ==
    LET hits == {p \in start..Len(t) : MatchEnd(t, marker, p) # 0}
    IN  IF hits = {} THEN <<SubSeq(t, start, Len(t))>>
        ELSE LET p == MinOf(hits)
                 r == MatchEnd(t, marker, p)
             IN  <<SubSeq(t, start, p - 1), SubSeq(t, p + 1, r - 1)>>
                     \o SplitFrom(t, marker, r + 1)

ReSplit(t, marker) == SplitFrom(t, marker, 1)

StartsWith(s, prefix) ==
    Len(s) >= Len(prefix) /\ SubSeq(s, 1, Len(prefix)) = prefix

\* ---- the accumulation
\* Variant: a full buffer is replaced by the piece without being appended.
AddPiece_ForgetsBuffer(st, piece, limit) ==
    LET piece_tokens == HeuristicTokens(piece)
    IN  IF st.current_tokens + piece_tokens > limit /\ st.current_chunk # <<>>
        THEN [chunks |-> st.chunks,
              current_chunk |-> piece,
              current_tokens |-> piece_tokens,
              made_of |-> st.made_of,
              current_pieces |-> <<piece>>]
        ELSE [chunks |-> st.chunks,
              current_chunk |-> IF st.current_chunk # <<>>
                                THEN st.current_chunk \o <<"\n", "\n">> \o piece
                                ELSE piece,
              current_tokens |-> st.current_tokens + piece_tokens,
              made_of |-> st.made_of,
              current_pieces |-> IF st.current_chunk # <<>>
                                 THEN Append(st.current_pieces, piece)
                                 ELSE <<piece>>]

\* Variant: the budget test without its "and current_chunk".
AddPiece_NoBufferTest(st, piece, limit) ==
    LET piece_tokens == HeuristicTokens(piece)
    IN  IF st.current_tokens + piece_tokens > limit
        THEN [chunks |-> Append(st.chunks, st.current_chunk),
              current_chunk |-> piece,
              current_tokens |-> piece_tokens,
              made_of |-> Append(st.made_of, st.current_pieces),
              current_pieces |-> <<piece>>]
        ELSE [chunks |-> st.chunks,
              current_chunk |-> IF st.current_chunk # <<>>
                                THEN st.current_chunk \o <<"\n", "\n">> \o piece
                                ELSE piece,
              current_tokens |-> st.current_tokens + piece_tokens,
              made_of |-> st.made_of,
              current_pieces |-> IF st.current_chunk # <<>>
                                 THEN Append(st.current_pieces, piece)
                                 ELSE <<piece>>]

\* The budget test and the two branches that follow it, the same at each of
\* the four places where a piece joins the buffer.  The fields made_of and
\* current_pieces are history: the pieces each chunk was put together from.
AddPiece(st, piece, limit) ==
    LET piece_tokens == HeuristicTokens(piece)
    IN  IF st.current_tokens + piece_tokens > limit /\ st.current_chunk # <<>>
        THEN [chunks |-> Append(st.chunks, st.current_chunk),
              current_chunk |-> piece,
              current_tokens |-> piece_tokens,
              made_of |-> Append(st.made_of, st.current_pieces),
              current_pieces |-> <<piece>>]
        ELSE [chunks |-> st.chunks,
              current_chunk |-> IF st.current_chunk # <<>>
                                THEN st.current_chunk \o <<"\n", "\n">> \o piece
                                ELSE piece,
              current_tokens |-> st.current_tokens + piece_tokens,
              made_of |-> st.made_of,
              current_pieces |-> IF st.current_chunk # <<>>
                                 THEN Append(st.current_pieces, piece)
                                 ELSE <<piece>>]

\* for j in range(0, len(subsections), 2)  (positions count from 1 here)
RECURSIVE AddSubsections(_, _, _, _)
AddSubsections(st, subsections, j, limit) ==
    IF j > Len(subsections) THEN st
    ELSE LET subsec == IF j + 1 <= Len(subsections)
                       THEN subsections[j] \o NL \o subsections[j + 1]
                       ELSE subsections[j]
         IN  AddSubsections(AddPiece(st, subsec, limit), subsections, j + 2, limit)

\* while i < len(sections)  (positions count from 1 here)
RECURSIVE ChunkLoop(_, _, _, _)
ChunkLoop(st, sections, i, limit) ==
    IF i > Len(sections) THEN st
    ELSE LET section == sections[i]
         IN  IF StartsWith(section, MAJOR)
             THEN IF i + 1 <= Len(sections)
                  THEN LET section_with_header == section \o NL \o sections[i + 1]
                       IN  IF HeuristicTokens(section_with_header) > limit
                           THEN ChunkLoop(AddSubsections(st, ReSplit(section_with_header, MINOR),
                                                         1, limit),
                                          sections, i + 2, limit)
                           ELSE ChunkLoop(AddPiece(st, section_with_header, limit),
                                          sections, i + 2, limit)
                  ELSE ChunkLoop(AddPiece(st, section, limit), sections, i + 1, limit)
             ELSE ChunkLoop(AddPiece(st, section, limit), sections, i + 1, limit)

EmptyBuffer ==
    [chunks |-> <<>>, current_chunk |-> <<>>, current_tokens |-> 0,
     made_of |-> <<>>, current_pieces |-> <<>>]

\* The chunks collected when the loop ends, the remaining buffer included.
CollectedChunks(text, limit) ==
    LET st == ChunkLoop(EmptyBuffer, ReSplit(text, MAJOR), 1, limit)
    IN  IF st.current_chunk # <<>> THEN Append(st.chunks, st.current_chunk)
        ELSE st.chunks

\* The pieces of each collected chunk, chunk by chunk.
CollectedPieces(text, limit) ==
    LET st == ChunkLoop(EmptyBuffer, ReSplit(text, MAJOR), 1, limit)
    IN  IF st.current_chunk # <<>> THEN Append(st.made_of, st.current_pieces)
        ELSE st.made_of

chunk_discovery_content_NoFallback(text, limit) ==
    CollectedChunks(text, limit)

chunk_discovery_content(text, limit) ==
    LET collected == CollectedChunks(text, limit)
    IN  IF collected # <<>> THEN collected ELSE <<text>>

\* ---- the specification: one call on one document
InitChunk ==
    /\ layout = "as_tested"
    /\ OrchestratorIdle
    /\ AsideIdle
    /\ EstimateIdle
    /\ MainIdle
    /\ discovery_content \in Documents
    /\ max_tokens \in 0..MaxTokensBound
    /\ chunks = <<>>
    /\ chunk_pc = "called"

ChunkDiscoveryContent ==
    /\ chunk_pc = "called"
    /\ chunks' = chunk_discovery_content(discovery_content, max_tokens)
    /\ chunk_pc' = "returned"
    /\ UNCHANGED <<discovery_content, max_tokens>>
    /\ UNCHANGED <<params, model_idx, attempt, last_exception, pc, result, error,
                   events, response, exc, classes_seen, estimate_vars, main_vars,
                   aside_vars>>

NextChunk == ChunkDiscoveryContent

SpecChunk == InitChunk /\ [][NextChunk]_vars

\* ================================================================ claims
\* What the claims speak about, read off the recorded calls and the last
\* thing create() did (response, exc), not off the handlers' own tests.
CallIdxs == {i \in DOMAIN events : events[i].ev = "call"}
SleepIdxs == {i \in DOMAIN events : events[i].ev = "sleep"}
NumCalls == Cardinality(CallIdxs)
NumSleeps == Cardinality(SleepIdxs)
CallsTo(m) == Cardinality({i \in CallIdxs : events[i].model = m})
SleepsOn(m) == Cardinality({i \in SleepIdxs : events[i].model = m})
Attempted == events # <<>>
LastCallIdx == CHOOSE i \in CallIdxs : \A j \in CallIdxs : j <= i
LastCall == events[LastCallIdx]
LastModel == models_to_try[Len(models_to_try)]

ValidResponse(r) ==
    /\ r.present
    /\ r.has_choices
    /\ Len(r.choices) >= 1
    /\ r.choices[1] # NoneContent
    /\ \E i \in 1..Len(r.choices[1]) : r.choices[1][i] \notin Whitespace

GotResponse == Attempted /\ exc.cls = "None"
Succeeded == GotResponse /\ ValidResponse(response)
Malformed == GotResponse /\ ~ValidResponse(response)
AuthFailed == exc.cls = "APIError" /\ exc.msg \cap {"authentication", "api key"} # {}
CodedApiError ==
    /\ exc.cls = "APIError"
    /\ ~AuthFailed
    /\ exc.msg \cap {"500", "502", "503", "504", "429"} # {}
TransientlyFailed ==
    \/ exc.cls \in {"RateLimitError", "APITimeoutError", "APIConnectionError", "Exception"}
    \/ CodedApiError
\* Every earlier call to the model of the last call raised.
EarlierAttemptsFailed ==
    \A i \in CallIdxs :
        (i < LastCallIdx /\ events[i].model = LastCall.model) => events[i].raised
SleepsDouble ==
    \A i \in SleepIdxs : events[i].seconds = initial_backoff * (2 ^ events[i].attempt)

\* C1: k transient failures on a model followed by a success on attempt
\* k+1 return that attempt's content after exactly k+1 calls to the model
\* and exactly k sleeps, the i-th of initial_backoff * 2^i.
C1_RetryThenSuccess ==
    (Succeeded /\ EarlierAttemptsFailed) =>
        /\ pc = "returned"
        /\ result = response.choices[1]
        /\ CallsTo(LastCall.model) = LastCall.attempt + 1
        /\ SleepsOn(LastCall.model) = LastCall.attempt
        /\ SleepsDouble

\* C2 (as claimed): an authentication failure of an attempt means exactly
\* one API call in total, no sleep, no fallback call, and a ValueError
\* about the API key. Stated for the layout in which a valid response
\* returns, so that only failed attempts can come before the failure.
C2_AuthOneCallInTotal ==
    (layout = "as_tested" /\ AuthFailed) =>
        /\ pc = "raised"
        /\ error.type = "ValueError" /\ error.kind = "auth" /\ ~error.wrapped
        /\ NumCalls = 1
        /\ NumSleeps = 0
        /\ \A i \in CallIdxs : events[i].model = model

\* C2 (amended): an authentication failure ends the call at once with the
\* ValueError about the API key: the failed call is the last event (no
\* sleep, retry or model switch follows), and when it is the first attempt
\* that fails so, exactly one call, no sleep and no fallback call were made.
C2_AuthAbortsAtOnce ==
    AuthFailed =>
        /\ pc = "raised"
        /\ error.type = "ValueError" /\ error.kind = "auth" /\ ~error.wrapped
        /\ LastCallIdx = Len(events)
        /\ model_name = LastCall.model
        /\ (LastCall.attempt = 0 /\ LastCall.model = model) =>
              /\ NumCalls = 1
              /\ NumSleeps = 0
              /\ \A i \in CallIdxs : events[i].model = model

C2_Witness ==
    /\ AuthFailed
    /\ NumCalls = 1
    /\ model = GPT4
    /\ max_retries = MaxRetriesBound
    /\ exc.msg = {"api key"}

\* C3: a response without choices, or whose first choice is empty or only
\* whitespace, aborts at once with a ValueError: that call is the last
\* event (no retry, no sleep, no switch to the fallback model).
C3_MalformedAbortsAtOnce ==
    Malformed =>
        /\ pc = "raised"
        /\ error.type = "ValueError" /\ ~error.wrapped
        /\ error.kind \in {"no_choices", "empty_choices", "empty_content", "whitespace"}
        /\ LastCallIdx = Len(events)
        /\ model_name = LastCall.model
        /\ error.model = LastCall.model /\ error.attempt = LastCall.attempt

C3_Witness ==
    /\ Malformed
    /\ model = GPT4
    /\ max_retries = MaxRetriesBound
    /\ NumCalls = 1
    /\ response.has_choices
    /\ Len(response.choices) >= 1
    /\ response.choices[1] = <<" ">>

\* C4: with primary gpt-4, transient failures of all max_retries+1 attempts
\* on gpt-4 make the next call go to gpt-3.5-turbo, every fallback call
\* comes after exactly max_retries+1 calls to gpt-4, and a success of the
\* fallback is returned as the result.
C4_FallbackAfterExhaustion ==
    /\ (/\ model = GPT4
        /\ Attempted
        /\ LastCall.model = GPT4
        /\ LastCall.attempt = max_retries
        /\ TransientlyFailed) =>
            /\ pc = "attempt"
            /\ model_name = GPT35
            /\ attempt = 0
            /\ CallsTo(GPT4) = max_retries + 1
    /\ \A i \in CallIdxs :
          (model = GPT4 /\ events[i].model = GPT35) =>
              Cardinality({j \in CallIdxs : j < i /\ events[j].model = GPT4}) = max_retries + 1
    /\ (/\ model = GPT4
        /\ Succeeded
        /\ LastCall.model = GPT35
        /\ \A i \in CallIdxs : events[i].model = GPT4 => events[i].raised) =>
            /\ pc = "returned"
            /\ result = response.choices[1]

\* C5 (as claimed): every failed attempt that is neither an authentication
\* failure nor a malformed response is followed by a further attempt when
\* attempts or models remain; a terminal error comes only after all of them.
C5_AnyOtherFailureRetried ==
    (Attempted /\ exc.cls # "None" /\ ~AuthFailed) =>
        /\ (LastCall.attempt < max_retries \/ LastCall.model # LastModel) => pc = "attempt"
        /\ pc = "raised" => (LastCall.attempt = max_retries /\ LastCall.model = LastModel)

\* C5 (amended): a rate limit, timeout, connection failure, API error whose
\* message carries 500/502/503/504/429, or unexpected non-ValueError error
\* is followed by a further attempt when attempts or models remain; for
\* these a terminal error comes only after all retries on all models.
C5_TransientFailureRetried ==
    (Attempted /\ TransientlyFailed) =>
        /\ (LastCall.attempt < max_retries \/ LastCall.model # LastModel) => pc = "attempt"
        /\ pc = "raised" => (LastCall.attempt = max_retries /\ LastCall.model = LastModel)

C5_Witness ==
    /\ Attempted
    /\ CodedApiError
    /\ LastCall.model = GPT4
    /\ LastCall.attempt = max_retries
    /\ max_retries > 0
    /\ pc = "attempt"
    /\ model_name = GPT35

\* C6: a sleep happens exactly before each retry of the same model: right
\* after the failed attempt a (a < max_retries), for initial_backoff * 2^a,
\* and right before attempt a+1 of that model; every retry after a failure
\* has its sleep; the fallback starts at attempt 0 directly after the last
\* primary call; nothing is slept before a terminal abort.
C6_SleepOnlyBeforeRetry ==
    /\ \A i \in SleepIdxs :
          /\ i > 1
          /\ events[i - 1].ev = "call"
          /\ events[i - 1].raised
          /\ events[i - 1].model = events[i].model
          /\ events[i - 1].attempt = events[i].attempt
          /\ events[i].attempt < max_retries
          /\ events[i].seconds = initial_backoff * (2 ^ events[i].attempt)
          /\ i < Len(events) =>
                /\ events[i + 1].ev = "call"
                /\ events[i + 1].model = events[i].model
                /\ events[i + 1].attempt = events[i].attempt + 1
          /\ i = Len(events) =>
                (pc = "attempt" /\ model_name = events[i].model /\ attempt = events[i].attempt + 1)
    /\ \A i \in CallIdxs :
          /\ (events[i].raised /\ i < Len(events) /\ events[i].attempt < max_retries) =>
                events[i + 1].ev = "sleep"
          /\ (i > 1 /\ events[i].model # model) =>
                \E j \in CallIdxs :
                    /\ j < i
                    /\ events[j].model = model
                    /\ events[j].attempt = max_retries
                    /\ \A k \in (j + 1)..(i - 1) : events[k].model # model
          /\ (i > 1 /\ events[i].attempt = 0) =>
                (events[i - 1].ev = "call" /\ events[i].model # model)
    /\ pc = "raised" => events[Len(events)].ev = "call"

C6_Witness ==
    /\ initial_backoff = 1
    /\ model = GPT4
    /\ \E i \in SleepIdxs : events[i].model = GPT4 /\ events[i].attempt = 1 /\ events[i].seconds = 2
    /\ \E i \in SleepIdxs : events[i].model = GPT35 /\ events[i].attempt = 0 /\ events[i].seconds = 1
    /\ pc = "raised"

\* C7: no candidate model is called more than max_retries + 1 times, so
\* at most 2 * (max_retries + 1) calls are made with primary gpt-4 and at
\* most max_retries + 1 with any other primary model.
C7_CallsBounded ==
    /\ \A m \in Models : CallsTo(m) <= max_retries + 1
    /\ NumCalls <= (IF model = GPT4 THEN 2 * (max_retries + 1) ELSE max_retries + 1)

C7_Witness ==
    /\ model = GPT4
    /\ max_retries = MaxRetriesBound
    /\ NumCalls = 2 * (MaxRetriesBound + 1)

\* C8: the candidates are [gpt-4, gpt-3.5-turbo] for primary gpt-4 and
\* [primary] otherwise: the first call targets the primary, only primary
\* gpt-4 ever leads to a call of another model (gpt-3.5-turbo), and for
\* any other primary a failure of its last attempt ends the call in error.
C8_CandidateModels ==
    /\ Len(models_to_try) = (IF model = GPT4 THEN 2 ELSE 1)
    /\ models_to_try[1] = model
    /\ model = GPT4 => models_to_try[2] = GPT35
    /\ Attempted => events[1].model = model
    /\ \A i \in CallIdxs :
          events[i].model # model => (model = GPT4 /\ events[i].model = GPT35)
    /\ (model # GPT4 /\ Attempted /\ LastCall.attempt = max_retries /\ ~Succeeded) =>
          (pc = "raised" /\ NumCalls = max_retries + 1)

C8_Witness ==
    /\ model = "gpt-4-turbo"
    /\ max_retries = MaxRetriesBound
    /\ NumCalls = MaxRetriesBound + 1
    /\ exc.cls = "RateLimitError"
    /\ pc = "raised"

\* C9: when the attempts run out on transient failures, the one terminal
\* error is that of the last failed attempt: a TimeoutError after a
\* timeout, otherwise an Exception naming the last failure's kind, with the
\* model and attempt of that last call.
C9_LastClassification ==
    (pc = "raised" /\ TransientlyFailed) =>
        /\ LastCall.attempt = max_retries
        /\ LastCall.model = LastModel
        /\ error.model = LastCall.model
        /\ error.attempt = LastCall.attempt
        /\ exc.cls = "APITimeoutError" =>
              (error.type = "TimeoutError" /\ error.kind = "timeout" /\ ~error.wrapped)
        /\ exc.cls = "RateLimitError" =>
              (error.type = "Exception" /\ error.kind = "rate_limit")
        /\ exc.cls = "APIConnectionError" =>
              (error.type = "Exception" /\ error.kind = "connection")
        /\ exc.cls = "APIError" =>
              (error.type = "Exception" /\ error.kind = "api_error")
        /\ exc.cls = "Exception" =>
              (error.type = "Exception" /\ error.kind = "unexpected")

C9_Witness ==
    /\ pc = "raised"
    /\ model = GPT4
    /\ exc.cls = "APITimeoutError"
    /\ error.type = "TimeoutError"
    /\ classes_seen = {"RateLimitError", "APIConnectionError", "APITimeoutError"}
    /\ \A i \in CallIdxs : events[i].raised

\* C10: a value is returned only when the attempt just made had a valid
\* response with a non-blank first choice, it is exactly that content, and
\* every attempt with such a response ends the call with that success.
C10_ReturnsValidContent ==
    /\ pc = "returned" =>
          /\ Succeeded
          /\ result = response.choices[1]
          /\ result # NoneContent
          /\ \E i \in 1..Len(result) : result[i] \notin Whitespace
    /\ Succeeded => (pc = "returned" /\ result = response.choices[1])


\* ========================================================= estimate_tokens
\* The texts: the length is all that the character count looks at.
EstimateTexts == {[i \in 1..n |-> "a"] : n \in 0..MaxTextLen}

\* What len(encoding.encode(text)) can be: a token stands for at least one
\* character, and the empty text has no token.
TokenCounts(text) == IF text = <<>> THEN {0} ELSE 1..Len(text)

\* tiktoken is not installed (HAS_TIKTOKEN is false).
NoTokenizer == [step |-> "absent", n |-> 0]

\* tiktoken is installed: get_encoding raises, or encode raises, or the
\* text is encoded into n tokens.
TokenizerOutcomes(text) ==
    {[step |-> "get_encoding_raises", n |-> 0], [step |-> "encode_raises", n |-> 0]}
        \cup {[step |-> "encoded", n |-> k] : k \in TokenCounts(text)}

\* Variant: encode is called outside the try block.
estimate_tokens_EncodeUnguarded(text, has_tiktoken, tokenizer) ==
    IF has_tiktoken /\ tokenizer.step = "encoded"
    THEN [raised |-> FALSE, value |-> tokenizer.n]
    ELSE IF has_tiktoken /\ tokenizer.step = "encode_raises"
    THEN [raised |-> TRUE, value |-> 0]
    ELSE [raised |-> FALSE, value |-> HeuristicTokens(text)]

\* The model argument only selects the encoding name, "cl100k_base" for
\* every model, and is left out.
estimate_tokens(text, has_tiktoken, tokenizer) ==
    IF has_tiktoken /\ tokenizer.step = "encoded"
    THEN [raised |-> FALSE, value |-> tokenizer.n]
    ELSE [raised |-> FALSE, value |-> HeuristicTokens(text)]

InitEstimate ==
    /\ layout = "as_tested"
    /\ OrchestratorIdle
    /\ AsideIdle
    /\ ChunkIdle
    /\ MainIdle
    /\ HAS_TIKTOKEN \in BOOLEAN
    /\ estimate_log = <<>>

EstimateTokens ==
    /\ Len(estimate_log) < MaxEstimateCalls
    /\ \E text \in EstimateTexts :
       \E tokenizer \in (IF HAS_TIKTOKEN THEN TokenizerOutcomes(text) ELSE {NoTokenizer}) :
           estimate_log' = Append(estimate_log,
                                  [text |-> text,
                                   tokenizer |-> tokenizer,
                                   outcome |-> estimate_tokens(text, HAS_TIKTOKEN, tokenizer)])
    /\ UNCHANGED HAS_TIKTOKEN
    /\ UNCHANGED <<params, model_idx, attempt, last_exception, pc, result, error,
                   events, response, exc, classes_seen, chunk_vars, main_vars,
                   aside_vars>>

NextEstimate == EstimateTokens

SpecEstimate == InitEstimate /\ [][NextEstimate]_vars

\* ==================================================================== main
\* The worksheets: what matters of a worksheet here is its token estimate,
\* taken around the limit of gpt-4.
WorksheetTokens == (GPT4_TOKEN_LIMIT - MainSpread)..(GPT4_TOKEN_LIMIT + MainSpread)

\* What main can write to a file: the guide (formatted_doc) or an error
\* document (error_doc).
GuideFile == "guide"
ErrorFile == "error_document"
Written(path, content) == [path |-> path, content |-> content]

\* --service-name: absent, or a short string of a lower-case letter, an
\* upper-case letter, a hyphen and a blank.
ServiceChars == {"a", "B", "-", " "}
ServiceNames == SeqsUpTo(ServiceChars, MaxServiceLen)

Digits == {"0", "1", "2", "3", "4", "5", "6", "7", "8", "9"}
\* [a-zA-Z0-9_-]
IsFileNameChar(c) ==
    \/ \E i \in 1..Len(LowerLetters) : c \in {LowerLetters[i], UpperLetters[i]}
    \/ c \in Digits \cup {"_", "-"}

\* re.sub(r'-+', '-', s)
RECURSIVE CollapseHyphens(_)
CollapseHyphens(s) ==
    IF Len(s) < 2 THEN s
    ELSE IF s[1] = "-" /\ s[2] = "-" THEN CollapseHyphens(Tail(s))
    ELSE <<s[1]>> \o CollapseHyphens(Tail(s))

\* s.strip('-')
RECURSIVE StripHyphens(_)
StripHyphens(s) ==
    IF s = <<>> THEN s
    ELSE IF s[1] = "-" THEN StripHyphens(Tail(s))
    ELSE IF s[Len(s)] = "-" THEN StripHyphens(SubSeq(s, 1, Len(s) - 1))
    ELSE s

GUIDE_SUFFIX == "-slo-implementation-guide.md"
ERROR_SUFFIX == "-slo-implementation-guide-ERROR.md"

\* Mutant: the error document gets the file name of the guide.
generate_output_filename_NoErrorSuffix(name, is_error) ==
    LET replaced == [i \in 1..Len(name) |-> IF IsFileNameChar(name[i]) THEN name[i] ELSE "-"]
        stripped == StripHyphens(CollapseHyphens(replaced))
        sanitized_name == IF stripped = <<>> THEN <<"s", "e", "r", "v", "i", "c", "e">>
                          ELSE stripped
    IN  LowerAll(sanitized_name) \o <<GUIDE_SUFFIX>>

\* The file name as a sequence: the characters of the sanitized service
\* name, then the fixed ending.
generate_output_filename(name, is_error) ==
    LET replaced == [i \in 1..Len(name) |-> IF IsFileNameChar(name[i]) THEN name[i] ELSE "-"]
        stripped == StripHyphens(CollapseHyphens(replaced))
        sanitized_name == IF stripped = <<>> THEN <<"s", "e", "r", "v", "i", "c", "e">>
                          ELSE stripped
    IN  LowerAll(sanitized_name) \o <<IF is_error THEN ERROR_SUFFIX ELSE GUIDE_SUFFIX>>

\* --output-file: absent, a name of the caller's own, or the very name
\* main gives the error document of this service.
CustomOutputFile == <<"o", "u", "t", ".", "m", "d">>
OutputFiles(name) == {<<>>, CustomOutputFile, generate_output_filename(name, TRUE)}

\* One call made by main: the function and what it was given of the
\* worksheet (for parse_args: the mode the arguments select).
Called(fn, payload) == [fn |-> fn, payload |-> payload]

InitMain ==
    /\ layout \in Layouts
    /\ OrchestratorIdle
    /\ AsideIdle
    /\ ChunkIdle
    /\ EstimateIdle
    /\ main_pc = "arguments"
    /\ worksheet_tokens \in WorksheetTokens
    /\ main_trace = <<>>
    /\ files_written = {}
    /\ exit_status = -1
    /\ service_name \in ServiceNames
    /\ output_file \in OutputFiles(service_name)

MainUnchanged ==
    UNCHANGED <<params, model_idx, attempt, last_exception, pc, result, error,
                events, response, exc, classes_seen, chunk_vars, estimate_vars,
                aside_vars, worksheet_tokens, service_name>>

Exit(status) ==
    /\ main_pc' = "exited"
    /\ exit_status' = status

\* --error without --service-name or --output-file
MainErrorModeIncomplete ==
    /\ main_pc = "arguments"
    /\ service_name = <<>> \/ output_file = <<>>
    /\ main_trace' = Append(main_trace, Called("parse_args", "error"))
    /\ Exit(1)
    /\ UNCHANGED <<files_written, output_file>>
    /\ MainUnchanged

\* --error: the error document is written to the output file
MainErrorMode ==
    /\ main_pc = "arguments"
    /\ service_name # <<>> /\ output_file # <<>>
    /\ main_trace' = main_trace \o <<Called("parse_args", "error"),
                                      Called("generate_error_document", "none")>>
    /\ \E written \in BOOLEAN :
           IF written
           THEN /\ files_written' = files_written \cup {Written(output_file, ErrorFile)}
                /\ Exit(0)
           ELSE UNCHANGED files_written /\ Exit(1)
    /\ UNCHANGED output_file
    /\ MainUnchanged

\* a required argument of the normal run is missing
MainArgumentsIncomplete ==
    /\ main_pc = "arguments"
    /\ main_trace' = Append(main_trace, Called("parse_args", "generate"))
    /\ Exit(1)
    /\ UNCHANGED <<files_written, output_file>>
    /\ MainUnchanged

\* the arguments are there; without --output-file the guide gets the
\* generated file name
MainArgumentsComplete ==
    /\ main_pc = "arguments"
    /\ service_name # <<>>
    /\ main_pc' = "read"
    /\ main_trace' = Append(main_trace, Called("parse_args", "generate"))
    /\ output_file' = IF output_file = <<>>
                         THEN generate_output_filename(service_name, FALSE)
                         ELSE output_file
    /\ UNCHANGED <<files_written, exit_status>>
    /\ MainUnchanged

\* read_file_content raises
MainReadFails ==
    /\ main_pc = "read"
    /\ main_trace' = Append(main_trace, Called("read_file_content", "none"))
    /\ Exit(1)
    /\ UNCHANGED <<files_written, output_file>>
    /\ MainUnchanged

\* the worksheet is read, sanitized and put into the prompt
MainReadWorksheet ==
    /\ main_pc = "read"
    /\ main_trace' = main_trace \o <<Called("read_file_content", "none"),
                                      Called("sanitize_input", "whole_worksheet"),
                                      Called("create_prompt_template", "whole_worksheet")>>
    /\ main_pc' = "client"
    /\ UNCHANGED <<files_written, exit_status, output_file>>
    /\ MainUnchanged

\* initialize_openai_client raises ValueError
MainClientFails ==
    /\ main_pc = "client"
    /\ main_trace' = Append(main_trace, Called("initialize_openai_client", "none"))
    /\ Exit(1)
    /\ UNCHANGED <<files_written, output_file>>
    /\ MainUnchanged

MainClientInitialized ==
    /\ main_pc = "client"
    /\ main_trace' = Append(main_trace, Called("initialize_openai_client", "none"))
    /\ main_pc' = "call"
    /\ UNCHANGED <<files_written, exit_status, output_file>>
    /\ MainUnchanged

\* call_openai_api(client, prompt, "gpt-4") returns; with the return
\* statement where the source has it, the call never returns.
MainCallReturns ==
    /\ main_pc = "call"
    /\ layout = "as_tested"
    /\ main_trace' = Append(main_trace, Called("call_openai_api", "whole_worksheet"))
    /\ main_pc' = "write"
    /\ UNCHANGED <<files_written, exit_status, output_file>>
    /\ MainUnchanged

\* call_openai_api raises: the error document is written, then exit 1
MainCallRaises ==
    /\ main_pc = "call"
    /\ main_trace' = main_trace \o <<Called("call_openai_api", "whole_worksheet"),
                                      Called("generate_error_document", "none")>>
    /\ LET error_filename == generate_output_filename(service_name, TRUE)
       IN  \E written \in BOOLEAN :
               files_written' = IF written
                                THEN files_written \cup {Written(error_filename, ErrorFile)}
                                ELSE files_written
    /\ Exit(1)
    /\ UNCHANGED output_file
    /\ MainUnchanged

\* the guide is formatted and written
MainWriteGuide ==
    /\ main_pc = "write"
    /\ main_trace' = Append(main_trace, Called("format_as_markdown_document", "none"))
    /\ files_written' = files_written \cup {Written(output_file, GuideFile)}
    /\ Exit(0)
    /\ UNCHANGED output_file
    /\ MainUnchanged

MainWriteFails ==
    /\ main_pc = "write"
    /\ main_trace' = Append(main_trace, Called("format_as_markdown_document", "none"))
    /\ UNCHANGED <<files_written, output_file>>
    /\ Exit(1)
    /\ MainUnchanged

NextMain ==
    \/ MainErrorModeIncomplete
    \/ MainErrorMode
    \/ MainArgumentsIncomplete
    \/ MainArgumentsComplete
    \/ MainReadFails
    \/ MainReadWorksheet
    \/ MainClientFails
    \/ MainClientInitialized
    \/ MainCallReturns
    \/ MainCallRaises
    \/ MainWriteGuide
    \/ MainWriteFails

SpecMain == InitMain /\ [][NextMain]_vars

\* ======================================================= check_token_limit
\* The model names given: those of the table and one that is not in it.
CheckModels == Models \cup {"gpt-5"}

\* What estimate_tokens returns for the content (it returns a natural number
\* for every text): the values around each limit of the table, and 0.
CheckTokens ==
    {0} \cup UNION {(TableAtImport[m] - CheckSpread)..(TableAtImport[m] + CheckSpread) :
                      m \in Models}

\* MODEL_TOKEN_LIMITS.get(model, MODEL_TOKEN_LIMITS["gpt-4"])
LimitOf(table, m) == IF m \in DOMAIN table THEN table[m] ELSE table[GPT4]

\* Variant: the limit itself already counts as exceeding.
check_token_limit_AtLeast(discovery_tokens, m, table) ==
    LET limit == LimitOf(table, m)
    IN  [exceeds_limit |-> discovery_tokens >= limit,
         discovery_tokens |-> discovery_tokens,
         limit |-> limit]

\* The tuple returned, given what estimate_tokens returned for the content.
\* observability_platform is not used.
check_token_limit(discovery_tokens, m, table) ==
    LET limit == LimitOf(table, m)
    IN  [exceeds_limit |-> discovery_tokens > limit,
         discovery_tokens |-> discovery_tokens,
         limit |-> limit]

\* Variant: the lookup is a setdefault, which enters the unknown model.
TableAfterCheck_Setdefault(table, m) ==
    IF m \in DOMAIN table THEN table
    ELSE [x \in DOMAIN table \cup {m} |-> IF x = m THEN table[GPT4] ELSE table[x]]

\* The table after the call: dict.get reads and enters nothing.
TableAfterCheck(table, m) == table

InitCheck ==
    /\ layout = "as_tested"
    /\ OrchestratorIdle
    /\ ChunkIdle
    /\ EstimateIdle
    /\ MainIdle
    /\ ValidateIdle
    /\ SanitizeIdle
    /\ MODEL_TOKEN_LIMITS = TableAtImport
    /\ check_log = <<>>

CheckTokenLimit ==
    /\ Len(check_log) < MaxCheckCalls
    /\ \E m \in CheckModels, estimated \in CheckTokens :
           /\ check_log' = Append(check_log,
                                  [model |-> m,
                                   estimated |-> estimated,
                                   table |-> MODEL_TOKEN_LIMITS,
                                   returned |-> check_token_limit(estimated, m,
                                                                  MODEL_TOKEN_LIMITS)])
           /\ MODEL_TOKEN_LIMITS' = TableAfterCheck(MODEL_TOKEN_LIMITS, m)
    /\ UNCHANGED <<params, model_idx, attempt, last_exception, pc, result, error,
                   events, response, exc, classes_seen, chunk_vars, estimate_vars,
                   main_vars, validate_vars, sanitize_vars>>

NextCheck == CheckTokenLimit

SpecCheck == InitCheck /\ [][NextCheck]_vars

\* ============================================ validate_discovery_worksheet
\* MAX_FILE_SIZE = 5 * 1024 * 1024
MAX_FILE_SIZE == 5242880


\* Path(file_path).suffix: the last dot of the name and what follows it,
\* nothing when the name has no dot or only a leading one.
Suffix(name) ==
    LET dots == {i \in 2..Len(name) : name[i] = "."}
    IN  IF dots = {} THEN <<>> ELSE SubSeq(name, MaxOf(dots), Len(name))

ALLOWED_EXTENSIONS == {<<".", "m", "d">>}

FileNames ==
    { <<"w", ".", "m", "d">>, <<"w", ".", "M", "D">>, <<"w", ".", "M", "d">>, <<"w", ".", "t", "x", "t">>,
      <<"w">>, <<".", "m", "d">>, <<"w", ".", "m", "d", ".", "t", "x", "t">>, <<"w", ".", "t", "x", "t", ".", "m", "d">> }

FileSizes == {0, 1, MAX_FILE_SIZE - 1, MAX_FILE_SIZE, MAX_FILE_SIZE + 1}

\* What detect_malicious_patterns can report (two of its five findings).
PatternNames == {"Script tags detected", "Executable code patterns detected"}

\* The files: an empty file is text without patterns, and the patterns of a
\* binary file are never looked for.
Files ==
    {[exists |-> FALSE, name |-> n, size |-> 0, text |-> TRUE, patterns |-> {}] :
         n \in FileNames}
    \cup {[exists |-> TRUE, name |-> n, size |-> 0, text |-> TRUE, patterns |-> {}] :
         n \in FileNames}
    \cup {[exists |-> TRUE, name |-> n, size |-> z, text |-> FALSE, patterns |-> {}] :
         n \in FileNames, z \in FileSizes \ {0}}
    \cup {[exists |-> TRUE, name |-> n, size |-> z, text |-> TRUE, patterns |-> ps] :
         n \in FileNames, z \in FileSizes \ {0}, ps \in SUBSET PatternNames}

InitValidate ==
    /\ layout = "as_tested"
    /\ OrchestratorIdle
    /\ ChunkIdle
    /\ EstimateIdle
    /\ MainIdle
    /\ CheckIdle
    /\ SanitizeIdle
    /\ validate_file \in Files
    /\ validate_pc = "existence"
    /\ validate_checks = <<>>
    /\ validate_result = NoResult

ValidateUnchanged ==
    UNCHANGED <<params, model_idx, attempt, last_exception, pc, result, error,
                events, response, exc, classes_seen, chunk_vars, estimate_vars,
                main_vars, check_vars, sanitize_vars, validate_file>>

\* One check is run: it is entered in the list of checks, and the call
\* either goes on to the next check or returns.
Checked(check, failure, next) ==
    /\ validate_checks' = Append(validate_checks, check)
    /\ IF failure = NoResult
       THEN validate_pc' = next /\ UNCHANGED validate_result
       ELSE validate_pc' = "returned" /\ validate_result' = failure

\* except ValidationError as e: return False, str(e)
Invalid(message) == [raised |-> FALSE, valid |-> FALSE, message |-> message]

\* Variant: no handler for the exceptions that are not a ValidationError.
Unexpected_Propagates ==
    [raised |-> TRUE, valid |-> FALSE, message |-> "none"]

\* except Exception as e: return False, "Unexpected error during validation"
Unexpected == Invalid("Unexpected error during validation")

\* if not os.path.exists(file_path)
ValidateExists ==
    /\ validate_pc = "existence"
    /\ Checked("existence",
               IF validate_file.exists THEN NoResult ELSE Invalid("File not found"),
               "extension")
    /\ ValidateUnchanged

\* validate_file_extension
ValidateExtension ==
    /\ validate_pc = "extension"
    /\ Checked("extension",
               IF LowerAll(Suffix(validate_file.name)) \in ALLOWED_EXTENSIONS
               THEN NoResult ELSE Invalid("Invalid file extension"),
               "size")
    /\ ValidateUnchanged

SizeFailure(size) ==
    IF size > MAX_FILE_SIZE THEN Invalid("File size exceeds maximum allowed size")
    ELSE IF size = 0 THEN Invalid("File is empty.")
    ELSE NoResult

\* validate_file_size; os.path.getsize can raise OSError
ValidateSize ==
    /\ validate_pc = "size"
    /\ \E os_error \in BOOLEAN :
           Checked("size",
                   IF os_error THEN Unexpected ELSE SizeFailure(validate_file.size),
                   "text")
    /\ ValidateUnchanged

\* validate_content_is_text; open and read can raise IOError
ValidateText ==
    /\ validate_pc = "text"
    /\ \E io_error \in BOOLEAN :
           Checked("text",
                   IF io_error THEN Invalid("Error reading file")
                   ELSE IF ~validate_file.text THEN Invalid("File contains binary data")
                   ELSE NoResult,
                   "malicious")
    /\ ValidateUnchanged

\* validate_no_malicious_content, and the return of the success
ValidateMalicious ==
    /\ validate_pc = "malicious"
    /\ validate_checks' = Append(validate_checks, "malicious")
    /\ validate_pc' = "returned"
    /\ \E io_error \in BOOLEAN :
           validate_result' =
               IF io_error THEN Invalid("Error reading file content")
               ELSE IF validate_file.patterns # {} THEN Invalid("Malicious content detected")
               ELSE [raised |-> FALSE, valid |-> TRUE,
                     message |-> "File validation passed successfully."]
    /\ ValidateUnchanged

NextValidate ==
    \/ ValidateExists
    \/ ValidateExtension
    \/ ValidateSize
    \/ ValidateText
    \/ ValidateMalicious

SpecValidate == InitValidate /\ [][NextValidate]_vars

\* ========================================================== sanitize_input
\* A pattern is a sequence of elements: one of several words, whatever the
\* case of the letters ("lit"), \s+ ("ws1") or \s* ("ws0").
WS1 == [kind |-> "ws1", alts |-> <<>>]
WS0 == [kind |-> "ws0", alts |-> <<>>]
COLON == [kind |-> "lit", alts |-> << <<":">> >>]

\* patterns_to_remove, in the order of the list
patterns_to_remove ==
    << << [kind |-> "lit", alts |-> <<<<"i", "g", "n", "o", "r", "e">>>>], WS1,
          [kind |-> "lit", alts |-> <<<<"p", "r", "e", "v", "i", "o", "u", "s">>, <<"a", "b", "o", "v", "e">>, <<"a", "l", "l">>>>], WS1,
          [kind |-> "lit", alts |-> <<<<"i", "n", "s", "t", "r", "u", "c", "t", "i", "o", "n", "s">>, <<"p", "r", "o", "m", "p", "t", "s">>, <<"r", "u", "l", "e", "s">>>>] >>,
       << [kind |-> "lit", alts |-> <<<<"f", "o", "r", "g", "e", "t">>>>], WS1,
          [kind |-> "lit", alts |-> <<<<"e", "v", "e", "r", "y", "t", "h", "i", "n", "g">>, <<"a", "l", "l">>, <<"p", "r", "e", "v", "i", "o", "u", "s">>>>] >>,
       << [kind |-> "lit", alts |-> <<<<"y", "o", "u">>>>], WS1, [kind |-> "lit", alts |-> <<<<"a", "r", "e">>>>], WS1, [kind |-> "lit", alts |-> <<<<"n", "o", "w">>>>] >>,
       << [kind |-> "lit", alts |-> <<<<"s", "y", "s", "t", "e", "m">>>>], WS0, COLON, WS0 >>,
       << [kind |-> "lit", alts |-> <<<<"a", "s", "s", "i", "s", "t", "a", "n", "t">>>>], WS0, COLON, WS0 >>,
       << [kind |-> "lit", alts |-> <<<<"u", "s", "e", "r">>>>], WS0, COLON, WS0 >> >>

\* The backtick character, by name: it cannot stand in a string here.
BT == "BACKTICK"

\* three backticks in a row
BACKTICKS == << [kind |-> "lit", alts |-> << <<BT, BT, BT>> >>] >>

HasWordAt(t, p, w) ==
    /\ p + Len(w) - 1 <= Len(t)
    /\ \A i \in 1..Len(w) : Lower(t[p + i - 1]) = w[i]

\* The pattern, from its element k on, tried at position p: the position
\* after the match, or 0 when there is none.  No word starts with
\* whitespace and no word of an element starts another, so the greedy
\* whitespace and the first fitting word are the only way to match.
RECURSIVE MatchFrom(_, _, _, _)
MatchFrom(t, p, pat, k) ==
    IF k > Len(pat) THEN p
    ELSE LET e == pat[k]
         IN  IF e.kind = "lit"
             THEN LET fits == {i \in 1..Len(e.alts) : HasWordAt(t, p, e.alts[i])}
                  IN  IF fits = {} THEN 0
                      ELSE MatchFrom(t, p + Len(e.alts[MinOf(fits)]), pat, k + 1)
             ELSE LET n == WsRun(t, p)
                  IN  IF e.kind = "ws1" /\ n = 0 THEN 0
                      ELSE MatchFrom(t, p + n, pat, k + 1)

\* re.sub(pattern, '', t): one pass from left to right; the text after a
\* match is scanned from the end of the match.
RECURSIVE RemoveFrom(_, _, _)
RemoveFrom(t, pat, p) ==
    IF p > Len(t) THEN <<>>
    ELSE LET e == MatchFrom(t, p, pat, 1)
         IN  IF e # 0 THEN RemoveFrom(t, pat, e)
             ELSE <<t[p]>> \o RemoveFrom(t, pat, p + 1)

ReSubEmpty(t, pat) == RemoveFrom(t, pat, 1)

\* for pattern in patterns_to_remove: sanitized = re.sub(pattern, '', sanitized)
RECURSIVE RemovePatterns(_, _)
RemovePatterns(t, k) ==
    IF k > Len(patterns_to_remove) THEN t
    ELSE RemovePatterns(ReSubEmpty(t, patterns_to_remove[k]), k + 1)

\* The number of newlines in a row from position p on.
NewlineRun(t, p) ==
    MaxOf({n \in 0..(Len(t) - p + 1) : \A i \in p..(p + n - 1) : t[i] = "\n"})

\* re.sub(r'\n{10,}', '\n\n', t)
RECURSIVE CollapseFrom(_, _)
CollapseFrom(t, p) ==
    IF p > Len(t) THEN <<>>
    ELSE LET n == NewlineRun(t, p)
         IN  IF n >= 10 THEN <<"\n", "\n">> \o CollapseFrom(t, p + n)
             ELSE <<t[p]>> \o CollapseFrom(t, p + 1)

CollapseNewlines(t) == CollapseFrom(t, 1)

sanitize_input(text) ==
    IF text = <<>> THEN <<>>
    ELSE Strip(CollapseNewlines(ReSubEmpty(RemovePatterns(text, 1), BACKTICKS)))

\* The texts are made of up to MaxFragments of these fragments.
Fragments ==
    { <<"s", "y", "s">>, <<"t", "e", "m", ":">>, <<"u", "s", "e", "r", ":">>,
      <<" ">>, <<"x">>, <<BT>>, <<BT, BT, BT>>,
      <<"\n", "\n", "\n", "\n", "\n", "\n", "\n", "\n", "\n", "\n">>,
      <<"F", "o", "r", "g", "e", "t">>, <<"a", "l", "l">>,
      <<"Y", "o", "u", " ", "a", "r", "e", " ", "n", "o", "w">>,
      <<"A", "s", "s", "i", "s", "t", "a", "n", "t", " ", ":">>,
      <<"i", "g", "n", "o", "r", "e", " ", "a", "l", "l", " ", "r", "u", "l", "e", "s">> }

RECURSIVE FragmentTexts(_)
FragmentTexts(n) ==
    IF n = 0 THEN {<<>>}
    ELSE LET shorter == FragmentTexts(n - 1)
         IN  shorter \cup {t \o f : t \in shorter, f \in Fragments}

InitSanitize ==
    /\ layout = "as_tested"
    /\ OrchestratorIdle
    /\ ChunkIdle
    /\ EstimateIdle
    /\ MainIdle
    /\ CheckIdle
    /\ ValidateIdle
    /\ sanitize_text \in FragmentTexts(MaxFragments)
    /\ sanitize_out = <<>>
    /\ sanitize_pc = "called"

SanitizeInput ==
    /\ sanitize_pc = "called"
    /\ sanitize_out' = sanitize_input(sanitize_text)
    /\ sanitize_pc' = "returned"
    /\ UNCHANGED sanitize_text
    /\ UNCHANGED <<params, model_idx, attempt, last_exception, pc, result, error,
                   events, response, exc, classes_seen, chunk_vars, estimate_vars,
                   main_vars, check_vars, validate_vars>>

NextSanitize == SanitizeInput

SpecSanitize == InitSanitize /\ [][NextSanitize]_vars

\* ======================================= claims on chunk_discovery_content
ChunkReturned == chunk_pc = "returned"

\* C12: chunk_discovery_content never returns an empty list: whatever the
\* text and whatever max_tokens, the result has at least one chunk, and the
\* empty text gives the one-element list that holds the empty text.
C12_NeverEmptyList ==
    ChunkReturned =>
        /\ Len(chunks) >= 1
        /\ discovery_content = <<>> => chunks = << <<>> >>

\* The empty text was chunked: nothing was collected, the fallback answered.
C12_Witness ==
    /\ ChunkReturned
    /\ discovery_content = <<>>
    /\ chunks = << <<>> >>

\* C13: a text whose estimate is at most the budget comes back as the
\* one-element list holding exactly that text, headings or not.
C13_WithinBudgetUnsplit ==
    (ChunkReturned /\ HeuristicTokens(discovery_content) <= max_tokens)
        => chunks = <<discovery_content>>


\* The lines of a text that are not empty, in order: what is left of a text
\* when the newlines that separate its pieces are not told apart.
RECURSIVE NonBlankLinesFrom(_, _)
NonBlankLinesFrom(t, i) ==
    IF i > Len(t) THEN <<>>
    ELSE IF t[i] = "\n" THEN NonBlankLinesFrom(t, i + 1)
    ELSE LET e == FirstNewlineFrom(t, i)
             stop == IF e = 0 THEN Len(t) + 1 ELSE e
         IN  <<SubSeq(t, i, stop - 1)>> \o NonBlankLinesFrom(t, stop)

NonBlankLines(t) == NonBlankLinesFrom(t, 1)

BlankLine == <<"\n", "\n">>

\* C14: chunk_discovery_content only partitions: the chunks joined with a
\* blank line hold the headings and the content lines of the input, each
\* once and in the order of the input; only separating newlines differ.
C14_OnlyPartitions ==
    ChunkReturned =>
        NonBlankLines(JoinWith(chunks, BlankLine)) = NonBlankLines(discovery_content)

\* A document was cut into several chunks, one of them put together from
\* several pieces, and the joined chunks differ from it in their newlines.
C14_Witness ==
    /\ ChunkReturned
    /\ Len(chunks) >= 2
    /\ \E k \in 1..Len(chunks) :
           Len(CollectedPieces(discovery_content, max_tokens)[k]) >= 2
    /\ JoinWith(chunks, BlankLine) # discovery_content
    /\ Len(NonBlankLines(discovery_content)) >= 4

\* C15: for a positive budget, every returned chunk has an estimate of at
\* most max_tokens, unless it is one single piece that alone exceeds it.
C15_ChunksWithinBudget ==
    (ChunkReturned /\ max_tokens >= 1) =>
        \A k \in 1..Len(chunks) :
            \/ HeuristicTokens(chunks[k]) <= max_tokens
            \/ LET pieces == CollectedPieces(discovery_content, max_tokens)[k]
               IN  Len(pieces) = 1 /\ HeuristicTokens(pieces[1]) > max_tokens

\* A section: a major heading line and one line of content.
Sections == {HeadingLine \o NL \o c : c \in ContentLines}

\* C16: a document of two sections, each within the budget and the two
\* together above it, gives exactly two chunks, the first section and the
\* second section, whether the document starts with the first heading or
\* with a newline before it.
C16_TwoSectionsTwoChunks ==
    ChunkReturned =>
        \A s1, s2 \in Sections :
            ( /\ discovery_content \in {s1 \o NL \o s2, NL \o s1 \o NL \o s2}
              /\ HeuristicTokens(s1) <= max_tokens
              /\ HeuristicTokens(s2) <= max_tokens
              /\ HeuristicTokens(s1 \o NL \o s2) > max_tokens )
            => chunks = <<s1, s2>>

\* A line that starts with "## " is a major heading.
HasMajorHeading(t) ==
    \E i \in 1..(Len(t) - 2) :
        /\ i = 1 \/ t[i - 1] = "\n"
        /\ SubSeq(t, i, i + 2) = <<"#", "#", " ">>

\* C17, as stated: a text without any "## " heading comes back whole and
\* unchanged as the single chunk, whatever max_tokens is.
C17_NoHeadingUnchanged ==
    (ChunkReturned /\ ~HasMajorHeading(discovery_content))
        => chunks = <<discovery_content>>

\* A line that starts with "##" and a whitespace character, the newline
\* that ends the line included.
HasMajorMarker(t) ==
    \E i \in 1..(Len(t) - 2) :
        /\ i = 1 \/ t[i - 1] = "\n"
        /\ SubSeq(t, i, i + 1) = MAJOR
        /\ t[i + 2] \in Whitespace

\* C17, amended: a text in which no line starts with "##" followed by a
\* whitespace character comes back whole and unchanged as the single chunk,
\* whatever max_tokens is.
C17_NoMarkerUnchanged ==
    (ChunkReturned /\ ~HasMajorMarker(discovery_content))
        => chunks = <<discovery_content>>

\* A text above the budget, with a minor heading and lines of content but
\* no such line, came back whole.
C17_Witness ==
    /\ ChunkReturned
    /\ ~HasMajorMarker(discovery_content)
    /\ HeuristicTokens(discovery_content) > max_tokens
    /\ max_tokens >= 1
    /\ \E i \in 1..(Len(discovery_content) - 2) :
           SubSeq(discovery_content, i, i + 2) = MINOR
    /\ chunks = <<discovery_content>>


\* =============================================== claims on estimate_tokens
EstimateCalls == 1..Len(estimate_log)

\* The call took the character count: no tokenizer, or a failing one.
OnHeuristicPath(k) == estimate_log[k].tokenizer.step # "encoded"

\* v is len(text) / 4 rounded down.
IsFloorOfQuarter(v, text) == 4 * v <= Len(text) /\ Len(text) < 4 * (v + 1)

\* C18: estimate_tokens returns a non-negative integer for every text and 0
\* for the empty text; on the heuristic path it returns floor(len(text)/4).
C18_NonNegativeAndFloor ==
    \A k \in EstimateCalls :
        LET call == estimate_log[k]
        IN  /\ ~call.outcome.raised
            /\ call.outcome.value \in Nat
            /\ call.text = <<>> => call.outcome.value = 0
            /\ OnHeuristicPath(k) => IsFloorOfQuarter(call.outcome.value, call.text)

\* The empty text was estimated, and a text of 7 characters on the heuristic
\* path, where rounding down shows.
C18_Witness ==
    \E j, k \in EstimateCalls :
        /\ estimate_log[j].text = <<>>
        /\ estimate_log[j].outcome.value = 0
        /\ OnHeuristicPath(k)
        /\ Len(estimate_log[k].text) = 7
        /\ estimate_log[k].outcome.value = 1

\* C19: on the heuristic path the estimate is monotone in the length of the
\* text: a longer text never has a smaller estimate.
C19_MonotoneInLength ==
    \A j, k \in EstimateCalls :
        ( /\ OnHeuristicPath(j)
          /\ OnHeuristicPath(k)
          /\ Len(estimate_log[k].text) > Len(estimate_log[j].text) )
        => estimate_log[k].outcome.value >= estimate_log[j].outcome.value

\* Two calls on the heuristic path, the longer text one character short of
\* the next multiple of four, the shorter text of four characters.
C19_Witness ==
    \E j, k \in EstimateCalls :
        /\ OnHeuristicPath(j)
        /\ OnHeuristicPath(k)
        /\ Len(estimate_log[j].text) = 4
        /\ Len(estimate_log[k].text) = 7
        /\ estimate_log[j].outcome.value = estimate_log[k].outcome.value

\* C20: estimate_tokens never raises: when the tokenizer is absent, or is
\* present and fails in get_encoding or in encode, the call returns
\* floor(len(text)/4).
C20_TokenizerFailureFallsBack ==
    \A k \in EstimateCalls :
        LET call == estimate_log[k]
        IN  /\ ~call.outcome.raised
            /\ call.tokenizer.step \in {"absent", "get_encoding_raises", "encode_raises"}
                   => IsFloorOfQuarter(call.outcome.value, call.text)

\* With tiktoken installed, get_encoding failed in one call and encode in
\* another, and both calls returned the character count of a non-empty text.
C20_Witness ==
    /\ HAS_TIKTOKEN
    /\ \E j, k \in EstimateCalls :
           /\ estimate_log[j].tokenizer.step = "get_encoding_raises"
           /\ estimate_log[k].tokenizer.step = "encode_raises"
           /\ ~estimate_log[j].outcome.raised
           /\ ~estimate_log[k].outcome.raised
           /\ estimate_log[j].outcome.value = 2
           /\ estimate_log[k].outcome.value = 1


\* ========================================================== claims on main
\* What main passed to call_openai_api, call by call.
SentToApi ==
    LET idxs == {k \in 1..Len(main_trace) : main_trace[k].fn = "call_openai_api"}
    IN  [k \in idxs |-> main_trace[k].payload]

MainCalledApi == \E k \in 1..Len(main_trace) : main_trace[k].fn = "call_openai_api"

MainCalledFn(fn) == \E k \in 1..Len(main_trace) : main_trace[k].fn = fn

\* C11: once main has called the API, a worksheet above the token limit of
\* the model was partitioned by chunk_discovery_content and sent chunk by
\* chunk, and a worksheet within the limit was sent whole in one call.
C11_ChunksSentWhenOverLimit ==
    MainCalledApi =>
        IF worksheet_tokens > GPT4_TOKEN_LIMIT
        THEN /\ MainCalledFn("chunk_discovery_content")
             /\ \A k \in DOMAIN SentToApi : SentToApi[k] = "chunk"
        ELSE /\ Cardinality(DOMAIN SentToApi) = 1
             /\ \A k \in DOMAIN SentToApi : SentToApi[k] = "whole_worksheet"


\* ============================================= claims on check_token_limit
CheckCalls == 1..Len(check_log)

\* C21: check_token_limit returns (exceeds, tokens, limit) with tokens the
\* estimate of the content and exceeds true exactly when tokens > limit, so
\* not when the estimate equals the limit; the call changes nothing else.
C21_ExceedsIffAboveLimit ==
    /\ \A k \in CheckCalls :
           LET call == check_log[k]
           IN  /\ call.returned.discovery_tokens = call.estimated
               /\ call.returned.exceeds_limit \in BOOLEAN
               /\ call.returned.exceeds_limit <=> (call.estimated > call.returned.limit)
               /\ call.table = TableAtImport
    /\ MODEL_TOKEN_LIMITS = TableAtImport

\* One content was estimated at exactly the limit and not reported, another
\* at one token more and reported.
C21_Witness ==
    \E j, k \in CheckCalls :
        /\ check_log[j].estimated = check_log[j].returned.limit
        /\ ~check_log[j].returned.exceeds_limit
        /\ check_log[k].estimated = check_log[k].returned.limit + 1
        /\ check_log[k].returned.exceeds_limit

\* C22: the limit returned is the entry of the given model, 7000 for gpt-4,
\* 100000 for gpt-4-turbo, 14000 for gpt-3.5-turbo, and 7000 for a model
\* that is not in the table; the table stays as the module defines it.
C22_LimitFromTable ==
    /\ \A k \in CheckCalls :
           LET call == check_log[k]
           IN  call.returned.limit =
                   IF call.model = "gpt-4" THEN 7000
                   ELSE IF call.model = "gpt-4-turbo" THEN 100000
                   ELSE IF call.model = "gpt-3.5-turbo" THEN 14000
                   ELSE 7000
    /\ DOMAIN MODEL_TOKEN_LIMITS = {"gpt-4", "gpt-4-turbo", "gpt-3.5-turbo"}
    /\ MODEL_TOKEN_LIMITS["gpt-4"] = 7000
    /\ MODEL_TOKEN_LIMITS["gpt-4-turbo"] = 100000
    /\ MODEL_TOKEN_LIMITS["gpt-3.5-turbo"] = 14000

\* A model outside the table was given the default limit, and afterwards
\* gpt-3.5-turbo was given its own.
C22_Witness ==
    \E j, k \in CheckCalls :
        /\ j < k
        /\ check_log[j].model \notin Models
        /\ check_log[j].returned.limit = 7000
        /\ check_log[k].model = GPT35
        /\ check_log[k].returned.limit = 14000


\* ================================== claims on validate_discovery_worksheet
CheckOrder == <<"existence", "extension", "size", "text", "malicious">>

ValidateReturned == validate_pc = "returned"

\* The messages a check can fail with.
MessagesOf(check) ==
    IF check = "existence" THEN {"File not found"}
    ELSE IF check = "extension" THEN {"Invalid file extension"}
    ELSE IF check = "size" THEN {"File size exceeds maximum allowed size", "File is empty.",
                                 "Unexpected error during validation"}
    ELSE IF check = "text" THEN {"File contains binary data", "Error reading file"}
    ELSE {"Malicious content detected", "Error reading file content"}

\* The file has the extension .md, in any case of the letters.
HasMdExtension ==
    Suffix(validate_file.name) \in {<<".", "m", "d">>, <<".", "M", "D">>,
                                    <<".", "M", "d">>, <<".", "m", "D">>}

\* What the message of a failed check says is true of the file.
MessageIsTrue(message) ==
    /\ message = "File not found" => ~validate_file.exists
    /\ message = "Invalid file extension" => ~HasMdExtension
    /\ message = "File size exceeds maximum allowed size"
           => validate_file.size > 5 * 1024 * 1024
    /\ message = "File is empty." => validate_file.size = 0
    /\ message = "File contains binary data" => ~validate_file.text
    /\ message = "Malicious content detected" => validate_file.patterns # {}

\* The file passes the first n checks of the order.
PassesFirst(n) ==
    /\ n >= 1 => validate_file.exists
    /\ n >= 2 => HasMdExtension
    /\ n >= 3 => validate_file.size >= 1 /\ validate_file.size <= 5 * 1024 * 1024
    /\ n >= 4 => validate_file.text
    /\ n >= 5 => validate_file.patterns = {}

\* C23: validate_discovery_worksheet never raises; it runs the checks in the
\* order existence, extension, size, text content, malicious patterns; it
\* returns False with the message of the first failing check, running no
\* later check; it returns True only for a file that exists, has the
\* extension .md in any case, a size of 1 to 5 MB, is text and has no
\* malicious pattern.
C23_ChecksInOrder ==
    /\ validate_checks = SubSeq(CheckOrder, 1, Len(validate_checks))
    /\ ValidateReturned =>
           /\ ~validate_result.raised
           /\ validate_result.valid \in BOOLEAN
           /\ ~validate_result.valid =>
                  /\ validate_result.message
                         \in MessagesOf(validate_checks[Len(validate_checks)])
                  /\ MessageIsTrue(validate_result.message)
                  /\ PassesFirst(Len(validate_checks) - 1)
           /\ validate_result.valid =>
                  /\ validate_checks = CheckOrder
                  /\ PassesFirst(5)

\* A file w.MD of exactly 5 MB passed all five checks.
C23_Witness ==
    /\ ValidateReturned
    /\ validate_result.valid
    /\ validate_file.name = <<"w", ".", "M", "D">>
    /\ validate_file.size = 5 * 1024 * 1024
    /\ validate_checks = CheckOrder


\* ==================================================== claims on sanitize_input
SanitizeReturned == sanitize_pc = "returned"

HasMatch(t, pat) == \E p \in 1..Len(t) : MatchFrom(t, p, pat, 1) # 0

\* C24: the output of sanitize_input holds no occurrence, in any case of
\* the letters, of a pattern it removes and no three backticks in a row,
\* and sanitizing the output again changes nothing.
C24_OutputIsClean ==
    SanitizeReturned =>
        /\ \A k \in 1..Len(patterns_to_remove) :
               ~HasMatch(sanitize_out, patterns_to_remove[k])
        /\ ~HasMatch(sanitize_out, BACKTICKS)
        /\ sanitize_input(sanitize_out) = sanitize_out


\* ============================ claims on the headings and their content
\* The non-empty lines of the document, which are also those of the chunks
\* one after the other (C14), and the number of them in the first n chunks.
DocLines == NonBlankLines(discovery_content)

RECURSIVE LinesInFirst(_)
LinesInFirst(n) ==
    IF n = 0 THEN 0 ELSE LinesInFirst(n - 1) + Len(NonBlankLines(chunks[n]))

\* A chunk ends with line k of the document and the next chunk starts with
\* line k + 1.
BoundaryAfter(k) ==
    /\ k < Len(DocLines)
    /\ \E n \in 1..(Len(chunks) - 1) : LinesInFirst(n) = k

IsMajorHeadingLine(l) == StartsWith(l, <<"#", "#", " ">>)
IsMinorHeadingLine(l) == StartsWith(l, <<"#", "#", "#", " ">>)

\* A document of headings and lines of letters only, no bare "##" line.
PlainDocument ==
    \A k \in 1..Len(DocLines) :
        \/ IsMajorHeadingLine(DocLines[k])
        \/ IsMinorHeadingLine(DocLines[k])
        \/ DocLines[k] \in ContentLines

\* C25: no chunk boundary falls between a "## " heading and the content
\* that follows it: the heading is never left at the end of the chunk of
\* the section before it, also when the document starts with a heading.
C25_HeadingWithItsContent ==
    (ChunkReturned /\ max_tokens >= 1 /\ PlainDocument) =>
        \A k \in 1..(Len(DocLines) - 1) :
            ( /\ IsMajorHeadingLine(DocLines[k])
              /\ ~IsMajorHeadingLine(DocLines[k + 1]) )
            => ~BoundaryAfter(k)

\* C26: no chunk boundary falls between a "### " heading and the content
\* that follows it: where a section above the budget is split again, each
\* "### " heading goes with the content after it, not the content before.
C26_SubheadingWithItsContent ==
    (ChunkReturned /\ max_tokens >= 1 /\ PlainDocument) =>
        \A k \in 1..(Len(DocLines) - 1) :
            ( /\ IsMinorHeadingLine(DocLines[k])
              /\ ~IsMajorHeadingLine(DocLines[k + 1])
              /\ ~IsMinorHeadingLine(DocLines[k + 1]) )
            => ~BoundaryAfter(k)

\* The text holds a blank line with a line of content before it and a line
\* of content after it.
HasSeveralParagraphs(t) ==
    \E i \in 2..(Len(t) - 2) :
        /\ t[i] = "\n"
        /\ t[i + 1] = "\n"
        /\ Range(NonBlankLines(SubSeq(t, 1, i - 1))) \cap ContentLines # {}
        /\ Range(NonBlankLines(SubSeq(t, i + 2, Len(t)))) \cap ContentLines # {}

\* C27: a chunk that is one piece starting with a "## " heading (a section
\* or its first subsection) and exceeds max_tokens is one single paragraph:
\* a piece of several paragraphs above the budget is split between them.
C27_OversizedIsOneParagraph ==
    (ChunkReturned /\ max_tokens >= 1 /\ PlainDocument) =>
        \A k \in 1..Len(chunks) :
            ( /\ IsMajorHeadingLine(chunks[k])
              /\ HeuristicTokens(chunks[k]) > max_tokens
              /\ Len(CollectedPieces(discovery_content, max_tokens)) = Len(chunks)
              /\ Len(CollectedPieces(discovery_content, max_tokens)[k]) = 1 )
            => ~HasSeveralParagraphs(chunks[k])

\* ------------------------------------------------------------ claim C28
Done == pc \in {"returned", "raised"}

\* A result or one terminal error, never both and never neither.
OneOutcome ==
    /\ pc = "attempt" => result = NoneContent /\ error = NoError
    /\ pc = "returned" => result # NoneContent /\ error = NoError
    /\ pc = "raised" => result = NoneContent /\ error # NoError

\* The calls follow the order of models_to_try: no call to an earlier model
\* comes after a call to a later one.
ModelPosition(m) == CHOOSE k \in DOMAIN models_to_try : models_to_try[k] = m
NoWayBack ==
    \A i, j \in CallIdxs :
        i < j => ModelPosition(events[i].model) <= ModelPosition(events[j].model)

\* C28: whatever the outcomes of the attempts, call_openai_api eventually
\* ends; it ends with a result or with exactly one terminal error, nothing
\* happens after that, and once the fallback model was called the primary
\* model is not called again.
C28_Terminates ==
    /\ <>Done
    /\ [](OneOutcome /\ NoWayBack)
    /\ [][pc = "attempt"]_vars

\* A run that used up every retry on gpt-4, went on to gpt-3.5-turbo, used
\* up every retry there too and ended.
C28_Witness ==
    /\ Done
    /\ max_retries = MaxRetriesBound
    /\ CallsTo(GPT4) = max_retries + 1
    /\ CallsTo(GPT35) = max_retries + 1
    /\ NumSleeps = 2 * max_retries

\* ------------------------------------------------------------ claim C29
\* The calls made to the model of call i before call i.
EarlierCallsTo(i) == {j \in CallIdxs : j < i /\ events[j].model = events[i].model}

\* One counter for every kind: the attempt index of a call is the number of
\* calls already made to its model.
SharedCounter == \A i \in CallIdxs : events[i].attempt = Cardinality(EarlierCallsTo(i))

\* What followed the failed call i.
SleptAndRetried(i) ==
    /\ i < Len(events)
    /\ events[i + 1].ev = "sleep"
    /\ events[i + 1].model = events[i].model
    /\ events[i + 1].seconds = initial_backoff * (2 ^ Cardinality(EarlierCallsTo(i)))
    /\ IF i + 1 < Len(events)
         THEN /\ events[i + 2].ev = "call"
              /\ events[i + 2].model = events[i].model
              /\ events[i + 2].attempt = events[i].attempt + 1
         ELSE /\ pc = "attempt"
              /\ model_name = events[i].model
              /\ attempt = events[i].attempt + 1
SwitchedToFallback(i) ==
    /\ events[i].model = GPT4
    /\ IF i < Len(events)
         THEN /\ events[i + 1].ev = "call"
              /\ events[i + 1].model = GPT35
              /\ events[i + 1].attempt = 0
         ELSE /\ pc = "attempt"
              /\ model_name = GPT35
              /\ attempt = 0
Aborted(i) == i = Len(events) /\ pc = "raised"

ExactlyOneOf(a, b, c) ==
    /\ a \/ b \/ c
    /\ ~(a /\ b)
    /\ ~(a /\ c)
    /\ ~(b /\ c)

\* C29: on each model there is one attempt counter for all kinds of
\* failure; the sleep after a failed call is initial_backoff * 2^attempt,
\* whatever kinds failed before; and each failed call is followed by
\* exactly one of a sleep and a retry on the same model, the switch to the
\* fallback model, or the end of the run with an error.
C29_SharedAttemptBudget ==
    /\ SharedCounter
    /\ \A i \in CallIdxs :
           events[i].raised =>
               ExactlyOneOf(SleptAndRetried(i), SwitchedToFallback(i), Aborted(i))
    /\ \A i \in SleepIdxs : i > 1 /\ events[i - 1].ev = "call" /\ events[i - 1].raised

\* A timeout, a rate limit and a connection failure in a row on gpt-4 used
\* up its three attempts, with sleeps of 2 and 4 seconds, and the run went
\* on to gpt-3.5-turbo.
C29_Witness ==
    /\ max_retries = 2
    /\ initial_backoff = 2
    /\ classes_seen = {"APITimeoutError", "RateLimitError", "APIConnectionError"}
    /\ CallsTo(GPT4) = 3
    /\ \A i \in CallIdxs : events[i].raised
    /\ {events[i].seconds : i \in SleepIdxs} = {2, 4}
    /\ pc = "attempt"
    /\ model_name = GPT35

\* ------------------------------------------------------------ claim C30
GuideWritten == \E f \in files_written : f.content = GuideFile
ErrorDocumentWritten == \E f \in files_written : f.content = ErrorFile
MainCallIdxs == {i \in DOMAIN main_trace : main_trace[i].fn = "call_openai_api"}
\* main's handler of the call ran: the call is followed by
\* generate_error_document.
MainCallRaised ==
    \E i \in MainCallIdxs :
        i < Len(main_trace) /\ main_trace[i + 1].fn = "generate_error_document"
MainCallReturned == MainCallIdxs # {} /\ ~MainCallRaised
HasErrorName(path) == path # <<>> /\ path[Len(path)] = ERROR_SUFFIX

\* C30: main writes the guide only after call_openai_api returned; when
\* the call raised, main has written nothing but an error document under
\* the "-ERROR" file name, and it exits with status 1; no run writes both
\* a guide and an error document.
C30_GuideOrErrorDocument ==
    /\ GuideWritten => MainCallReturned
    /\ MainCallRaised =>
           /\ ~GuideWritten
           /\ \A f \in files_written : f.content = ErrorFile /\ HasErrorName(f.path)
           /\ main_pc = "exited"
           /\ exit_status = 1
    /\ ~(GuideWritten /\ ErrorDocumentWritten)
    /\ Cardinality(files_written) <= 1

\* The call raised in a run without --output-file: the guide's file name
\* was generated, the error document was written under the "-ERROR" name.
C30_Witness ==
    /\ MainCallRaised
    /\ ErrorDocumentWritten
    /\ exit_status = 1
    /\ output_file = generate_output_filename(service_name, FALSE)
    /\ Len(service_name) = MaxServiceLen

====
